---- MODULE Spec2Model ----
(***************************************************************************)
(* State-machine model of climbing_analysis.py: peak finding, grouping of  *)
(* peaks into plateaus and the per-plateau rate-of-force-development (RFD) *)
(* computation.                                                            *)
(*                                                                         *)
(* Conventions.                                                            *)
(*  - `signal` and `timestamps` are the pandas columns, modelled as        *)
(*    functions over the 0-based row positions 0..n-1 (what .iloc reads).  *)
(*  - Python lists (peaks, plateaus, current_plateau, rfd_results,         *)
(*    rfd_lines) are TLA+ sequences; the Python position j is the TLA+     *)
(*    position j+1 (see At).  Their elements are 0-based row positions.    *)
(*  - Forces are integers in units of 0.1 N, so that the baseline 0.1 N of *)
(*    line 67 is the integer BASELINE.  Timestamps are integers in ms.     *)
(*  - Quotients (time_to_peak, rfd, the kg columns) are exact fractions    *)
(*    <<numerator, denominator>>; Python's None is the empty tuple.        *)
(*  - The script's top-level names are globals, so the loop locals         *)
(*    (plateau, highest_peak_idx, start_idx, ...) are state variables that *)
(*    keep the values of the last iteration.                               *)
(***************************************************************************)
EXTENDS Integers, Sequences, FiniteSets, TLC

\* ---------------------------------------------------------------- bounds
MaxLen == 5

\* Force levels of a sample, in units of 0.1 N: below, at and above baseline.
Forces == {0, 1, 2, 3}

\* Differences between the timestamps of consecutive rows, in ms.
Gaps == {-1000, 1000, 4000}

\* ------------------------------------------------------ program constants
\* GRAVITY = 9.81 as the fraction GRAVITY_NUM / GRAVITY_DEN
GRAVITY_NUM == 981
GRAVITY_DEN == 100
\* threshold = 5000 (ms)
threshold == 5000
\* 0.1 (N), the literal of line 67, in units of 0.1 N
BASELINE == 1
\* the literal 1000 of line 74 (ms per s)
MS_PER_S == 1000

None == << >>

VARIABLES signal, timestamps, peaks, plateaus, current_plateau, i,
          rfd_results, rfd_lines, plateau_pos, plateau, highest_peak_idx,
          start_idx, time_to_peak, rfd, rfd_df, pc

vars == <<signal, timestamps, peaks, plateaus, current_plateau, i,
          rfd_results, rfd_lines, plateau_pos, plateau, highest_peak_idx,
          start_idx, time_to_peak, rfd, rfd_df, pc>>

\* ---------------------------------------------------------------- helpers
\* Python list indexing lst[j]
At(lst, j) == lst[j + 1]

\* number of rows of a column
Rows(col) == Cardinality(DOMAIN col)

\* timestamps of the rows, from the differences g between consecutive rows;
\* the first timestamp is 0 (line 24 subtracts the first row's timestamp)
RECURSIVE ZeroBased(_, _)
ZeroBased(g, k) == IF k = 0 THEN 0 ELSE ZeroBased(g, k - 1) + g[k]

\* exact fractions <<numerator, denominator>>
FracDiv(a, b) == <<a[1] * b[2], a[2] * b[1]>>
FracPos(a) == a[1] * a[2] > 0
GRAVITY == <<GRAVITY_NUM, GRAVITY_DEN>>

\* ------------------------------------------------------------ find_peaks
\* scipy.signal.find_peaks(x) without conditions: the local maxima of x.  A
\* maximum is a run of equal samples whose neighbour on each side is strictly
\* smaller; the middle sample of the run (rounded down) is returned.  The
\* first and the last sample are never peaks.
\* variant: only samples strictly above both immediate neighbours
RECURSIVE StrictMaxima(_, _, _)
StrictMaxima(x, idx, acc) ==
    IF idx >= Rows(x) - 1 THEN acc
    ELSE StrictMaxima(x, idx + 1,
             IF x[idx - 1] < x[idx] /\ x[idx + 1] < x[idx]
             THEN Append(acc, idx) ELSE acc)

find_peaks_strict(x) == StrictMaxima(x, 1, << >>)

RECURSIVE PlateauEnd(_, _, _)
PlateauEnd(x, idx, i_ahead) ==
    IF i_ahead < Rows(x) - 1 /\ x[i_ahead] = x[idx]
    THEN PlateauEnd(x, idx, i_ahead + 1)
    ELSE i_ahead

RECURSIVE LocalMaxima(_, _, _)
LocalMaxima(x, idx, acc) ==
    IF idx >= Rows(x) - 1 THEN acc
    ELSE IF x[idx - 1] < x[idx]
         THEN LET i_ahead == PlateauEnd(x, idx, idx + 1) IN
              IF x[i_ahead] < x[idx]
              THEN LocalMaxima(x, i_ahead + 1,
                               Append(acc, (idx + (i_ahead - 1)) \div 2))
              ELSE LocalMaxima(x, idx + 1, acc)
         ELSE LocalMaxima(x, idx + 1, acc)

find_peaks(x) == LocalMaxima(x, 1, << >>)

\* ------------------------------------------------------- plateau grouping
\* variant: a gap of exactly the threshold still joins
SameEffort_le(ts, a, b) == ts[b] - ts[a] <= threshold

\* line 49: peak b joins the plateau of the preceding peak a
SameEffort(ts, a, b) == ts[b] - ts[a] < threshold

\* ------------------------------------------------------------ RFD pieces
\* variant: a later peak of equal force replaces the earlier one
RECURSIVE MaxScan_last(_, _, _, _)
MaxScan_last(pl, sig, j, best) ==
    IF j > Len(pl) THEN best
    ELSE MaxScan_last(pl, sig, j + 1,
                      IF sig[pl[j]] >= sig[best] THEN pl[j] ELSE best)

\* line 62: max(plateau, key=lambda idx: signal.iloc[idx]); Python's max
\* keeps the first element whose key is not exceeded by a later one
RECURSIVE MaxScan(_, _, _, _)
MaxScan(pl, sig, j, best) ==
    IF j > Len(pl) THEN best
    ELSE MaxScan(pl, sig, j + 1,
                 IF sig[pl[j]] > sig[best] THEN pl[j] ELSE best)

MaxByKey(pl, sig) == MaxScan(pl, sig, 2, pl[1])

\* variant: a sample exactly at the baseline is not an onset
RECURSIVE ScanBack_strict(_, _, _)
ScanBack_strict(sig, idx, first) ==
    IF idx < 0 THEN first
    ELSE IF sig[idx] < BASELINE THEN idx
         ELSE ScanBack_strict(sig, idx - 1, first)

\* lines 65-69: backward scan for the last baseline sample before `first`
RECURSIVE ScanBack(_, _, _)
ScanBack(sig, idx, first) ==
    IF idx < 0 THEN first
    ELSE IF sig[idx] <= BASELINE THEN idx
         ELSE ScanBack(sig, idx - 1, first)

\* variant: the scan starts at the first peak itself
OnsetIdx_fromFirst(sig, first) == ScanBack(sig, first, first)

OnsetIdx(sig, first) == ScanBack(sig, first - 1, first)

\* variant: the operands of the subtraction swapped
TimeToPeak_swapped(peak_time, start_time) ==
    <<start_time - peak_time, MS_PER_S>>

\* line 74
TimeToPeak(peak_time, start_time) == <<peak_time - start_time, MS_PER_S>>

\* variant: zero instead of None
Rfd_zero(peak_value, ttp) ==
    IF FracPos(ttp) THEN FracDiv(<<peak_value, 1>>, ttp) ELSE <<0, 1>>

\* line 78
Rfd(peak_value, ttp) ==
    IF FracPos(ttp) THEN FracDiv(<<peak_value, 1>>, ttp) ELSE None

\* lines 81-89
ResultRow(start_time, peak_time, ttp, peak_value, r) ==
    ("Plateau Start Time" :> start_time) @@
    ("Peak Time" :> peak_time) @@
    ("Time to Peak (s)" :> ttp) @@
    ("Peak Value (kg)" :> FracDiv(<<peak_value, 1>>, GRAVITY)) @@
    ("Peak Value (N)" :> peak_value) @@
    ("RFD (kg/s)" :> IF r # None THEN FracDiv(r, GRAVITY) ELSE None) @@
    ("RFD (N/s)" :> IF r # None THEN r ELSE None)

\* lines 92-97
LineRow(start_time, peak_time, peak_value) ==
    [start_time |-> start_time, end_time |-> peak_time,
     start_value |-> 0, end_value |-> peak_value]

\* ------------------------------------------------------------------ Init
\* The state after lines 15-39: the file is read, timestamps are zero-based
\* and the samples are forces.  Nothing orders or validates the rows.
Init ==
    /\ \E n \in 1..MaxLen :
         /\ signal \in [0..(n - 1) -> Forces]
         /\ \E g \in [1..(n - 1) -> Gaps] :
              timestamps = [k \in 0..(n - 1) |-> ZeroBased(g, k)]
    /\ peaks = << >>
    /\ plateaus = << >>
    /\ current_plateau = << >>
    /\ i = 0
    /\ rfd_results = << >>
    /\ rfd_lines = << >>
    /\ plateau_pos = 0
    /\ plateau = None
    /\ highest_peak_idx = None
    /\ start_idx = None
    /\ time_to_peak = None
    /\ rfd = None
    /\ rfd_df = None
    /\ pc = "find_peaks"

\* --------------------------------------------------------------- actions
\* line 35
FindPeaks ==
    /\ pc = "find_peaks"
    /\ peaks' = find_peaks(signal)
    /\ pc' = "seed"
    /\ UNCHANGED <<signal, timestamps, plateaus, current_plateau, i,
                   rfd_results, rfd_lines, plateau_pos, plateau,
                   highest_peak_idx, start_idx, time_to_peak, rfd, rfd_df>>

\* lines 45-46 with at least one peak
SeedPlateau ==
    /\ pc = "seed"
    /\ Len(peaks) > 0
    /\ plateaus' = << >>
    /\ current_plateau' = <<At(peaks, 0)>>
    /\ i' = 1
    /\ pc' = "group"
    /\ UNCHANGED <<signal, timestamps, peaks, rfd_results, rfd_lines,
                   plateau_pos, plateau, highest_peak_idx, start_idx,
                   time_to_peak, rfd, rfd_df>>

\* line 46 without a peak: peaks[0] raises IndexError, nothing catches it
SeedIndexError ==
    /\ pc = "seed"
    /\ Len(peaks) = 0
    /\ pc' = "crashed"
    /\ UNCHANGED <<signal, timestamps, peaks, plateaus, current_plateau, i,
                   rfd_results, rfd_lines, plateau_pos, plateau,
                   highest_peak_idx, start_idx, time_to_peak, rfd, rfd_df>>

\* lines 48-53, one iteration of the loop
GroupStep ==
    /\ pc = "group"
    /\ i < Len(peaks)
    /\ IF SameEffort(timestamps, At(peaks, i - 1), At(peaks, i))
       THEN /\ current_plateau' = Append(current_plateau, At(peaks, i))
            /\ UNCHANGED plateaus
       ELSE /\ plateaus' = Append(plateaus, current_plateau)
            /\ current_plateau' = <<At(peaks, i)>>
    /\ i' = i + 1
    /\ UNCHANGED <<signal, timestamps, peaks, rfd_results, rfd_lines,
                   plateau_pos, plateau, highest_peak_idx, start_idx,
                   time_to_peak, rfd, rfd_df, pc>>

\* variant: the plateau still open when the loop ends is dropped
CloseLast_noAppend ==
    /\ pc = "group"
    /\ i >= Len(peaks)
    /\ rfd_results' = << >>
    /\ rfd_lines' = << >>
    /\ plateau_pos' = 0
    /\ pc' = "rfd"
    /\ UNCHANGED <<signal, timestamps, peaks, plateaus, current_plateau, i,
                   plateau, highest_peak_idx, start_idx, time_to_peak, rfd,
                   rfd_df>>

\* line 54 and lines 57-58, after the loop
CloseLast ==
    /\ pc = "group"
    /\ i >= Len(peaks)
    /\ plateaus' = Append(plateaus, current_plateau)
    /\ rfd_results' = << >>
    /\ rfd_lines' = << >>
    /\ plateau_pos' = 0
    /\ pc' = "rfd"
    /\ UNCHANGED <<signal, timestamps, peaks, current_plateau, i, plateau,
                   highest_peak_idx, start_idx, time_to_peak, rfd, rfd_df>>

\* variant: a plateau without an RFD gets neither a row nor a line
RfdStep_skipDegenerate ==
    /\ pc = "rfd"
    /\ plateau_pos < Len(plateaus)
    /\ LET pl == At(plateaus, plateau_pos)
           hi == MaxByKey(pl, signal)
           st == OnsetIdx(signal, At(pl, 0))
           ttp == TimeToPeak(timestamps[hi], timestamps[st])
           r == Rfd(signal[hi], ttp)
       IN /\ plateau' = pl
          /\ highest_peak_idx' = hi
          /\ start_idx' = st
          /\ time_to_peak' = ttp
          /\ rfd' = r
          /\ rfd_results' =
               IF r = None THEN rfd_results
               ELSE Append(rfd_results,
                        ResultRow(timestamps[st], timestamps[hi], ttp,
                                  signal[hi], r))
          /\ rfd_lines' =
               IF r = None THEN rfd_lines
               ELSE Append(rfd_lines,
                        LineRow(timestamps[st], timestamps[hi], signal[hi]))
    /\ plateau_pos' = plateau_pos + 1
    /\ UNCHANGED <<signal, timestamps, peaks, plateaus, current_plateau, i,
                   rfd_df, pc>>

\* lines 60-97, one iteration of the loop over the plateaus
RfdStep ==
    /\ pc = "rfd"
    /\ plateau_pos < Len(plateaus)
    /\ LET pl == At(plateaus, plateau_pos)
           hi == MaxByKey(pl, signal)
           st == OnsetIdx(signal, At(pl, 0))
           start_time == timestamps[st]
           peak_time == timestamps[hi]
           ttp == TimeToPeak(peak_time, start_time)
           peak_value == signal[hi]
           r == Rfd(peak_value, ttp)
       IN /\ plateau' = pl
          /\ highest_peak_idx' = hi
          /\ start_idx' = st
          /\ time_to_peak' = ttp
          /\ rfd' = r
          /\ rfd_results' = Append(rfd_results,
                 ResultRow(start_time, peak_time, ttp, peak_value, r))
          /\ rfd_lines' = Append(rfd_lines,
                 LineRow(start_time, peak_time, peak_value))
    /\ plateau_pos' = plateau_pos + 1
    /\ UNCHANGED <<signal, timestamps, peaks, plateaus, current_plateau, i,
                   rfd_df, pc>>

\* lines 100-105: the result table that is displayed
Report ==
    /\ pc = "rfd"
    /\ plateau_pos >= Len(plateaus)
    /\ rfd_df' = rfd_results
    /\ pc' = "done"
    /\ UNCHANGED <<signal, timestamps, peaks, plateaus, current_plateau, i,
                   rfd_results, rfd_lines, plateau_pos, plateau,
                   highest_peak_idx, start_idx, time_to_peak, rfd>>

Next ==
    \/ FindPeaks
    \/ SeedPlateau
    \/ SeedIndexError
    \/ GroupStep
    \/ CloseLast
    \/ RfdStep
    \/ Report

Spec == Init /\ [][Next]_vars


\* The peak finder alone: it reads only the forces, so the recordings are
\* those of Init with evenly spaced rows, and the only step is line 35.
InitPeaks ==
    /\ \E n \in 1..MaxLen :
         /\ signal \in [0..(n - 1) -> Forces]
         /\ \E gap \in Gaps :
              timestamps = [k \in 0..(n - 1) |-> k * gap]
    /\ peaks = << >>
    /\ plateaus = << >>
    /\ current_plateau = << >>
    /\ i = 0
    /\ rfd_results = << >>
    /\ rfd_lines = << >>
    /\ plateau_pos = 0
    /\ plateau = None
    /\ highest_peak_idx = None
    /\ start_idx = None
    /\ time_to_peak = None
    /\ rfd = None
    /\ rfd_df = None
    /\ pc = "find_peaks"

SpecPeaks == InitPeaks /\ [][FindPeaks]_vars

\* ================================================================ claims
\* vocabulary of the claims
GroupingDone == pc \in {"rfd", "done"}
AfterPlateau == pc \in {"rfd", "done"} /\ plateau_pos > 0
PeaksFound == pc # "find_peaks"

NonDecreasing(ts) ==
    \A k \in DOMAIN ts : k > 0 => ts[k - 1] <= ts[k]
StrictlyIncreasing(ts) ==
    \A k \in DOMAIN ts : k > 0 => ts[k - 1] < ts[k]

RECURSIVE Flatten(_)
Flatten(ll) == IF ll = << >> THEN << >> ELSE Head(ll) \o Flatten(Tail(ll))

Elems(lst) == {lst[j] : j \in 1..Len(lst)}

\* rows before `first` whose force is at most the baseline
BaselineBefore(first) == {k \in 0..(first - 1) : signal[k] <= BASELINE}
Greatest(S) == CHOOSE m \in S : \A k \in S : k <= m

\* C1: once the grouping loop has finished on a recording with non-decreasing
\* timestamps, the plateaus partition the peak list: no plateau is empty,
\* every peak lies in exactly one plateau at exactly one position, and the
\* plateaus concatenated in order are the ascending peak list.
C1_PlateausPartitionPeaks ==
    (GroupingDone /\ NonDecreasing(timestamps)) =>
        /\ Len(peaks) >= 1
        /\ \A a \in 1..Len(plateaus) : Len(plateaus[a]) >= 1
        /\ \A j \in 1..Len(peaks) :
             Cardinality({ab \in (1..Len(plateaus)) \X (1..Len(peaks)) :
                            /\ ab[2] <= Len(plateaus[ab[1]])
                            /\ plateaus[ab[1]][ab[2]] = peaks[j]}) = 1
        /\ \A j \in 1..(Len(peaks) - 1) : peaks[j] < peaks[j + 1]
        /\ Flatten(plateaus) = peaks

C1_Witness ==
    /\ GroupingDone
    /\ NonDecreasing(timestamps)
    /\ Len(peaks) = 2
    /\ Len(plateaus) = 2

C5_NoPeaksNoCrash ==
    (PeaksFound /\ Len(peaks) = 0) =>
        /\ pc # "crashed"
        /\ pc = "done" => Len(rfd_df) = 0

\* C6: in every result row both RFD fields are None when time_to_peak <= 0,
\* and both are present, with RFD (N/s) * time_to_peak = peak force, when
\* time_to_peak > 0.
C6_RfdAbsentOrQuotient ==
    GroupingDone =>
        \A j \in 1..Len(rfd_results) :
            LET row == rfd_results[j]
                ttp == row["Time to Peak (s)"]
                n == row["RFD (N/s)"]
                kg == row["RFD (kg/s)"]
            IN IF ttp[1] * ttp[2] <= 0
               THEN n = None /\ kg = None
               ELSE /\ n # None
                    /\ kg # None
                    /\ n[2] # 0
                    /\ n[1] * ttp[1] = row["Peak Value (N)"] * n[2] * ttp[2]

C6_Witness ==
    /\ GroupingDone
    /\ Len(rfd_results) = 2
    /\ rfd_results[1]["Time to Peak (s)"][1] < 0
    /\ rfd_results[1]["RFD (N/s)"] = None
    /\ rfd_results[2]["RFD (N/s)"] # None

\* C7: the highest peak is a peak of the plateau, no peak of the plateau has
\* a greater force, and no earlier peak of the plateau has the same force.
C7_FirstMaximalPeak ==
    AfterPlateau =>
        /\ highest_peak_idx \in Elems(plateau)
        /\ \A q \in Elems(plateau) : signal[q] <= signal[highest_peak_idx]
        /\ \A q \in Elems(plateau) :
             signal[q] = signal[highest_peak_idx] => highest_peak_idx <= q

C7_Witness ==
    /\ AfterPlateau
    /\ Len(plateau) = 2
    /\ signal[plateau[1]] = signal[plateau[2]]
    /\ highest_peak_idx = plateau[1]

\* l..r is a run of equal interior samples of x, strictly above the sample on
\* each side of the run
FlatMaximum(x, l, r) ==
    /\ 1 <= l /\ l <= r /\ r + 1 \in DOMAIN x
    /\ x[l - 1] < x[l]
    /\ x[r + 1] < x[r]
    /\ \A k \in l..r : x[k] = x[l]

\* C8 as stated: every returned index is interior and strictly above both
\* immediate neighbours, every such index is returned, in ascending order.
C8_StrictLocalMaxima ==
    PeaksFound =>
        /\ \A j \in 1..Len(peaks) : FlatMaximum(signal, peaks[j], peaks[j])
        /\ \A k \in DOMAIN signal :
             FlatMaximum(signal, k, k) => k \in Elems(peaks)
        /\ \A j \in 1..(Len(peaks) - 1) : peaks[j] < peaks[j + 1]

\* C8 amended: every returned index is the middle (rounded down) of a run of
\* equal interior samples that is strictly above the sample on each side of
\* the run, the middle of every such run is returned (so every interior index
\* strictly above both immediate neighbours is), in ascending order.
C8_FlatLocalMaxima ==
    PeaksFound =>
        LET found == Elems(peaks)
            last == Rows(signal) - 1
        IN /\ \A p \in found :
                \E l \in 1..p : \E r \in p..last :
                    FlatMaximum(signal, l, r) /\ p = (l + r) \div 2
           /\ \A l \in 1..last : \A r \in l..last :
                FlatMaximum(signal, l, r) => ((l + r) \div 2) \in found
           /\ \A j \in 1..(Len(peaks) - 1) : peaks[j] < peaks[j + 1]

C8_Witness ==
    /\ PeaksFound
    /\ Len(peaks) = 1
    /\ signal[peaks[1]] = signal[peaks[1] + 1]
    /\ signal[peaks[1] - 1] < signal[peaks[1]]

\* the force of the highest peak and the onset of plateau pl, stated from
\* the recording alone
TopForce(pl) == Greatest({signal[q] : q \in Elems(pl)})
TopPeaks(pl) == {q \in Elems(pl) : signal[q] = TopForce(pl)}
Onsets(pl) ==
    IF BaselineBefore(pl[1]) = {} THEN {pl[1]}
    ELSE {Greatest(BaselineBefore(pl[1]))}

\* C9: while and after the plateaus are processed, the result list and the
\* line list hold one entry per processed plateau, the j-th from the j-th
\* plateau (also when its time_to_peak is <= 0), the line running from
\* (start_time, 0) to (peak_time, peak force); a step leaves every earlier
\* entry as it was and appends exactly one entry to each list.
C9_OneRowPerPlateau ==
    [][ (pc' \in {"rfd", "done"}) =>
          /\ Len(rfd_results') = plateau_pos'
          /\ Len(rfd_lines') = plateau_pos'
          /\ plateau_pos' <= Len(plateaus')
          /\ \A j \in 1..plateau_pos' :
               LET row == rfd_results'[j]
                   line == rfd_lines'[j]
               IN /\ row["Peak Value (N)"] = TopForce(plateaus'[j])
                  /\ \E q \in TopPeaks(plateaus'[j]) :
                       row["Peak Time"] = timestamps[q]
                  /\ \E o \in Onsets(plateaus'[j]) :
                       row["Plateau Start Time"] = timestamps[o]
                  /\ row["Time to Peak (s)"][1] * MS_PER_S
                       = row["Time to Peak (s)"][2]
                           * (row["Peak Time"] - row["Plateau Start Time"])
                  /\ line = [start_time |-> row["Plateau Start Time"],
                             end_time |-> row["Peak Time"],
                             start_value |-> 0,
                             end_value |-> row["Peak Value (N)"]]
          /\ (pc = "rfd") =>
               /\ plateaus' = plateaus
               /\ \A j \in 1..Len(rfd_results) :
                    /\ rfd_results'[j] = rfd_results[j]
                    /\ rfd_lines'[j] = rfd_lines[j]
               /\ pc' = "rfd" => plateau_pos' = plateau_pos + 1
               /\ pc' = "done" => plateau_pos = Len(plateaus)
      ]_vars

C9_Witness ==
    /\ pc = "done"
    /\ Len(rfd_results) = 2
    /\ Len(rfd_lines) = 2
    /\ rfd_results[1]["Time to Peak (s)"][1] <= 0
    /\ rfd_results[2]["Time to Peak (s)"][1] > 0

\* C10: with strictly increasing timestamps the onset index is at most the
\* highest-peak index, time_to_peak is not negative, and the RFD is None
\* exactly when no sample before the plateau's first peak has force <= 0.1 N
\* and the highest peak is the plateau's first peak.
C10_RfdAbsentIffNoOnset ==
    (AfterPlateau /\ StrictlyIncreasing(timestamps)) =>
        /\ start_idx <= highest_peak_idx
        /\ time_to_peak[1] >= 0 /\ time_to_peak[2] > 0
        /\ rfd = None <=>
             /\ BaselineBefore(plateau[1]) = {}
             /\ highest_peak_idx = plateau[1]
        /\ rfd_results[plateau_pos]["RFD (N/s)"] = rfd

C10_Witness ==
    /\ AfterPlateau
    /\ StrictlyIncreasing(timestamps)
    /\ Len(plateau) = 2
    /\ rfd = None

====
